---- MODULE Spec2Model ----
(***************************************************************************)
(* Model of the Perspective JupyterLab binding:                            *)
(*   - PerspectiveWidget (psp_widget.ts): a Lumino widget that wraps a     *)
(*     <perspective-viewer> element, marshals its options to element       *)
(*     attributes and forwards lifecycle messages to the viewer;           *)
(*   - PerspectiveJupyterPlugin: the JupyterLab plugin that registers the  *)
(*     widget model and view with the Jupyter widget registry.             *)
(*                                                                         *)
(* JavaScript values are tagged records.  A string whose content is JSON   *)
(* text is kept as the sequence of its lexemes (Text), so that             *)
(* JSON.stringify and JSON.parse are real conversions.                     *)
(***************************************************************************)
EXTENDS Integers, Sequences, FiniteSets, TLC

VARIABLES
    widget,     \* the PerspectiveWidget: private fields and Lumino flags
    viewer,     \* the <perspective-viewer> element
    node,       \* the widget's container element
    calls,      \* calls made by the latest operation, in order
    last,       \* the latest operation on the widget and its argument
    assigned,   \* the value most recently assigned to each property
    app         \* the JupyterLab application and its widget registry

vars == <<widget, viewer, node, calls, last, assigned, app>>

(***************************************************************************)
(* Bounds                                                                  *)
(***************************************************************************)
\* longest array assigned to a collection property
MaxLen == 1
\* largest number of fields present in an options object
MaxPresent == 2

(***************************************************************************)
(* JavaScript values                                                       *)
(***************************************************************************)
Undefined == [t |-> "undefined"]
Null == [t |-> "null"]
Bool(b) == [t |-> "bool", v |-> b]
Str(s) == [t |-> "str", v |-> s]
Arr(s) == [t |-> "arr", v |-> s]
Obj(f) == [t |-> "obj", v |-> f]
\* a string holding JSON text, as the sequence of its lexemes
Text(toks) == [t |-> "text", v |-> toks]

EmptyArr == Arr(<<>>)
EmptyObj == Obj(<<>>)

\* JavaScript truthiness, as used by `||` and `if (...)`
Truthy(x) ==
    CASE x.t = "undefined" -> FALSE
      [] x.t = "null" -> FALSE
      [] x.t = "bool" -> x.v
      [] x.t = "str" -> x.v # ""
      [] x.t = "text" -> x.v # <<>>
      [] OTHER -> TRUE

\* a || b
Or(a, b) == IF Truthy(a) THEN a ELSE b

\* o[f] on an options object: undefined when the field is absent
Get(o, f) == IF f \in DOMAIN o THEN o[f] ELSE Undefined

(***************************************************************************)
(* JSON                                                                    *)
(***************************************************************************)
\* every string that occurs inside a collection
Atoms == {"a", "b", "sum", "asc", "==", "x"}
\* object keys are serialized in this order
KeyOrder == <<"a", "b">>

Quote(s) == "\"" \o s \o "\""
Unquote(tok) == CHOOSE s \in Atoms : Quote(s) = tok

RECURSIVE JSON_stringify_tokens(_)
RECURSIVE JoinElements(_, _)
RECURSIVE JoinMembers(_, _, _)

\* the elements of an array from index i on, separated by commas
JoinElements(s, i) ==
    IF i > Len(s) THEN <<>>
    ELSE (IF i > 1 THEN <<",">> ELSE <<>>)
         \o JSON_stringify_tokens(s[i]) \o JoinElements(s, i + 1)

\* the members of an object, keys KeyOrder[i..]; first: nothing written yet
JoinMembers(f, i, first) ==
    IF i > Len(KeyOrder) THEN <<>>
    ELSE IF KeyOrder[i] \in DOMAIN f
         THEN (IF first THEN <<>> ELSE <<",">>)
              \o <<Quote(KeyOrder[i]), ":">>
              \o JSON_stringify_tokens(f[KeyOrder[i]])
              \o JoinMembers(f, i + 1, FALSE)
         ELSE JoinMembers(f, i + 1, first)

JSON_stringify_tokens(x) ==
    CASE x.t = "null" -> <<"null">>
      [] x.t = "undefined" -> <<"null">>
      [] x.t = "bool" -> IF x.v THEN <<"true">> ELSE <<"false">>
      [] x.t = "str" -> <<Quote(x.v)>>
      [] x.t = "arr" -> <<"[">> \o JoinElements(x.v, 1) \o <<"]">>
      [] x.t = "obj" -> <<"{">> \o JoinMembers(x.v, 1, TRUE) \o <<"}">>

JSON_stringify(x) == Text(JSON_stringify_tokens(x))

RECURSIVE ParseValue(_, _)
RECURSIVE ParseElements(_, _, _)
RECURSIVE ParseMembers(_, _, _)

\* parse the value starting at toks[i]; n is the index after it
ParseValue(toks, i) ==
    CASE toks[i] = "null" -> [v |-> Null, n |-> i + 1]
      [] toks[i] = "true" -> [v |-> Bool(TRUE), n |-> i + 1]
      [] toks[i] = "false" -> [v |-> Bool(FALSE), n |-> i + 1]
      [] toks[i] = "[" -> ParseElements(toks, i + 1, <<>>)
      [] toks[i] = "{" -> ParseMembers(toks, i + 1, <<>>)
      [] OTHER -> [v |-> Str(Unquote(toks[i])), n |-> i + 1]

ParseElements(toks, i, acc) ==
    IF toks[i] = "]" THEN [v |-> Arr(acc), n |-> i + 1]
    ELSE LET j == IF toks[i] = "," THEN i + 1 ELSE i
             r == ParseValue(toks, j)
         IN  ParseElements(toks, r.n, Append(acc, r.v))

ParseMembers(toks, i, acc) ==
    IF toks[i] = "}" THEN [v |-> Obj(acc), n |-> i + 1]
    ELSE LET j == IF toks[i] = "," THEN i + 1 ELSE i
             r == ParseValue(toks, j + 2)
         IN  ParseMembers(toks, r.n, acc @@ (Unquote(toks[j]) :> r.v))

\* JSON.parse(x): a null argument is coerced to the text "null"
JSON_parse(x) ==
    LET toks == IF x = Null THEN <<"null">> ELSE x.v
    IN  ParseValue(toks, 1).v

(***************************************************************************)
(* Imported names (./utils, ./version, ./model, ./view)                    *)
(***************************************************************************)
MIME_TYPE == "MIME_TYPE"
PSP_CLASS == "PSP_CLASS"
PSP_CONTAINER_CLASS == "PSP_CONTAINER_CLASS"
PSP_CONTAINER_CLASS_DARK == "PSP_CONTAINER_CLASS_DARK"

(***************************************************************************)
(* The heap h = [widget, viewer, node, calls]                              *)
(*   widget : the PerspectiveWidget's private fields and its Lumino flags  *)
(*   viewer : the <perspective-viewer> element                             *)
(*   node   : the widget's container element                               *)
(*   calls  : the calls made on the viewer and on the base Widget by the   *)
(*            operation in progress, in order                              *)
(***************************************************************************)
Heap == [widget |-> widget, viewer |-> viewer, node |-> node, calls |-> calls]

\* record one call
Call(h, c) == [h EXCEPT !.calls = Append(@, c)]

\* Element.hasAttribute / getAttribute / setAttribute / removeAttribute
hasAttribute(h, name) == name \in DOMAIN h.viewer.attrs

getAttribute(h, name) ==
    IF hasAttribute(h, name) THEN h.viewer.attrs[name] ELSE Null

setAttribute(h, name, value) ==
    Call([h EXCEPT !.viewer.attrs =
              [k \in (DOMAIN @) \cup {name} |-> IF k = name THEN value ELSE @[k]]],
         [m |-> "setAttribute", name |-> name, value |-> value])

removeAttribute(h, name) ==
    Call([h EXCEPT !.viewer.attrs = [k \in (DOMAIN @) \ {name} |-> @[k]]],
         [m |-> "removeAttribute", name |-> name])

\* viewer.restore(config): the viewer takes over the plugin_config of config
viewer_restore(h, config) ==
    Call(IF "plugin_config" \in DOMAIN config
         THEN [h EXCEPT !.viewer.plugin_config = config["plugin_config"]]
         ELSE h,
         [m |-> "restore", config |-> config])

(***************************************************************************)
(* Property accessors of PerspectiveWidget                                 *)
(***************************************************************************)
get_plugin(h) == getAttribute(h, "plugin")
set_plugin(h, plugin) == setAttribute(h, "plugin", plugin)

get_columns(h) == JSON_parse(getAttribute(h, "columns"))
set_columns(h, columns) ==
    IF Len(columns.v) > 0
    THEN setAttribute(h, "columns", JSON_stringify(columns))
    ELSE removeAttribute(h, "columns")

get_row_pivots(h) == JSON_parse(getAttribute(h, "row-pivots"))
set_row_pivots(h, row_pivots) ==
    setAttribute(h, "row-pivots", JSON_stringify(row_pivots))

get_column_pivots(h) == JSON_parse(getAttribute(h, "column-pivots"))
set_column_pivots(h, column_pivots) ==
    setAttribute(h, "column-pivots", JSON_stringify(column_pivots))

get_aggregates(h) == JSON_parse(getAttribute(h, "aggregates"))
set_aggregates(h, aggregates) ==
    setAttribute(h, "aggregates", JSON_stringify(aggregates))

\* set sort that drops the attribute for an empty collection
set_sort_remove_empty(h, sort) ==
    IF Len(sort.v) > 0
    THEN setAttribute(h, "sort", JSON_stringify(sort))
    ELSE removeAttribute(h, "sort")

get_sort(h) == JSON_parse(getAttribute(h, "sort"))
set_sort(h, sort) == setAttribute(h, "sort", JSON_stringify(sort))

get_expressions(h) == JSON_parse(getAttribute(h, "expressions"))
set_expressions(h, expressions) ==
    IF Len(expressions.v) > 0
    THEN setAttribute(h, "expressions", JSON_stringify(expressions))
    ELSE removeAttribute(h, "expressions")

\* set filters that keeps an empty collection as an attribute
set_filters_keep(h, filters) ==
    setAttribute(h, "filters", JSON_stringify(filters))

get_filters(h) == JSON_parse(getAttribute(h, "filters"))
set_filters(h, filters) ==
    IF Len(filters.v) > 0
    THEN setAttribute(h, "filters", JSON_stringify(filters))
    ELSE removeAttribute(h, "filters")

get_plugin_config(h) == h.widget._plugin_config
set_plugin_config(h, plugin_config) ==
    LET h1 == [h EXCEPT !.widget._plugin_config = plugin_config]
    IN  IF Truthy(h1.widget._plugin_config)
        THEN viewer_restore(h1, [plugin_config |-> h1.widget._plugin_config])
        ELSE h1

get_client(h) == h.widget._client
set_client(h, client) == [h EXCEPT !.widget._client = client]

get_server(h) == h.widget._server
set_server(h, server) == [h EXCEPT !.widget._server = server]

\* set dark that adds the class of the new mode and leaves the other one
set_dark_add_only(h, dark) ==
    LET h1 == [h EXCEPT !.widget._dark = dark]
        h2 == IF Truthy(h1.widget._dark)
              THEN [h1 EXCEPT !.node.classList = @ \cup {PSP_CONTAINER_CLASS_DARK}]
              ELSE [h1 EXCEPT !.node.classList = @ \cup {PSP_CONTAINER_CLASS}]
    IN  IF h2.widget.isAttached
        THEN Call(h2, [m |-> "restyleElement"])
        ELSE h2

get_dark(h) == h.widget._dark
set_dark(h, dark) ==
    LET h1 == [h EXCEPT !.widget._dark = dark]
        h2 == IF Truthy(h1.widget._dark)
              THEN [h1 EXCEPT !.node.classList =
                        (@ \cup {PSP_CONTAINER_CLASS_DARK}) \ {PSP_CONTAINER_CLASS}]
              ELSE [h1 EXCEPT !.node.classList =
                        (@ \cup {PSP_CONTAINER_CLASS}) \ {PSP_CONTAINER_CLASS_DARK}]
    IN  IF h2.widget.isAttached
        THEN Call(h2, [m |-> "restyleElement"])
        ELSE h2

get_editable(h) == h.widget._editable
set_editable(h, editable) ==
    LET h1 == [h EXCEPT !.widget._editable = editable]
    IN  IF Truthy(h1.widget._editable)
        THEN setAttribute(h1, "editable", Str(""))
        ELSE removeAttribute(h1, "editable")

get_selectable(h) == Bool(hasAttribute(h, "selectable"))
set_selectable(h, row_selection) ==
    IF Truthy(row_selection)
    THEN setAttribute(h, "selectable", Str(""))
    ELSE removeAttribute(h, "selectable")

(***************************************************************************)
(* _set_attributes: apply user-provided options to the widget              *)
(***************************************************************************)
\* defaults in which aggregates defaults to an empty array
Defaults_aggregates_array ==
    [plugin |-> Str("datagrid"), columns |-> EmptyArr, row_pivots |-> EmptyArr,
     column_pivots |-> EmptyArr, aggregates |-> EmptyArr, sort |-> EmptyArr,
     filters |-> EmptyArr, expressions |-> EmptyArr, plugin_config |-> EmptyObj,
     dark |-> Bool(FALSE), editable |-> Bool(FALSE), server |-> Bool(FALSE),
     client |-> Bool(FALSE), selectable |-> Bool(FALSE)]

\* the value an option takes when the options object does not give it
Defaults ==
    [plugin |-> Str("datagrid"), columns |-> EmptyArr, row_pivots |-> EmptyArr,
     column_pivots |-> EmptyArr, aggregates |-> EmptyObj, sort |-> EmptyArr,
     filters |-> EmptyArr, expressions |-> EmptyArr, plugin_config |-> EmptyObj,
     dark |-> Bool(FALSE), editable |-> Bool(FALSE), server |-> Bool(FALSE),
     client |-> Bool(FALSE), selectable |-> Bool(FALSE)]

_set_attributes(h, options) ==
    LET plugin == Or(Get(options, "plugin"), Defaults.plugin)
        columns == Or(Get(options, "columns"), Defaults.columns)
        row_pivots == Or(Get(options, "row_pivots"),
                         Or(Get(options, "row-pivots"), Defaults.row_pivots))
        column_pivots == Or(Get(options, "column_pivots"),
                            Or(Get(options, "column-pivots"), Defaults.column_pivots))
        aggregates == Or(Get(options, "aggregates"), Defaults.aggregates)
        sort == Or(Get(options, "sort"), Defaults.sort)
        filters == Or(Get(options, "filters"), Defaults.filters)
        expressions == Or(Get(options, "expressions"),
                          Or(Get(options, "expressions"), Defaults.expressions))
        plugin_config == Or(Get(options, "plugin_config"), Defaults.plugin_config)
        dark == Or(Get(options, "dark"), Defaults.dark)
        editable == Or(Get(options, "editable"), Defaults.editable)
        server == Or(Get(options, "server"), Defaults.server)
        client == Or(Get(options, "client"), Defaults.client)
        selectable == Or(Get(options, "selectable"), Defaults.selectable)
        h1 == set_server(h, server)
        h2 == set_client(h1, client)
        h3 == set_dark(h2, dark)
        h4 == set_editable(h3, editable)
        h5 == set_plugin(h4, plugin)
        h6 == set_plugin_config(h5, plugin_config)
        h7 == set_row_pivots(h6, row_pivots)
        h8 == set_column_pivots(h7, column_pivots)
        h9 == set_sort(h8, sort)
        h10 == set_columns(h9, columns)
        h11 == set_selectable(h10, selectable)
        h12 == set_aggregates(h11, aggregates)
        h13 == set_expressions(h12, expressions)
    IN  set_filters(h13, filters)

(***************************************************************************)
(* Construction                                                            *)
(***************************************************************************)
\* createNode(node): decorate the container and put a fresh viewer into it
createNode(classList) ==
    [widget |-> [_plugin_config |-> Undefined, _client |-> Undefined,
                 _server |-> Undefined, _dark |-> Undefined,
                 _editable |-> Undefined,
                 isAttached |-> FALSE, isVisible |-> FALSE],
     viewer |-> [attrs |-> [k \in {"type"} |-> Str(MIME_TYPE)],
                 classList |-> {PSP_CLASS},
                 plugin_config |-> Undefined,
                 table |-> FALSE],
     node |-> [classList |-> classList \cup {"p-Widget", PSP_CONTAINER_CLASS}],
     calls |-> <<[m |-> "toggleConfig"]>>]

\* new PerspectiveWidget(name, options), options.bindto carrying classList
constructor(classList, options) == _set_attributes(createNode(classList), options)

(***************************************************************************)
(* Lumino overrides and viewer delegation                                  *)
(***************************************************************************)
\* notifyResize that does not look at the widget's visibility
notifyResize_always(h) == Call(h, [m |-> "notifyResize"])

notifyResize(h) ==
    IF h.widget.isVisible THEN Call(h, [m |-> "notifyResize"]) ELSE h

onAfterShow(h, msg) ==
    Call(notifyResize(h), [m |-> "super.onAfterShow", msg |-> msg])

onResize(h, msg) ==
    Call(notifyResize(h), [m |-> "super.onResize", msg |-> msg])

onActivateRequest(h, msg) ==
    Call(IF h.widget.isAttached THEN Call(h, [m |-> "focus"]) ELSE h,
         [m |-> "super.onActivateRequest", msg |-> msg])

toggleConfig(h) ==
    IF h.widget.isVisible THEN Call(h, [m |-> "toggleConfig"]) ELSE h

save(h) == Call(h, [m |-> "save"])

\* restore that also caches the plugin_config it hands to the viewer
restore_caching(h, config) ==
    viewer_restore(IF "plugin_config" \in DOMAIN config
                   THEN [h EXCEPT !.widget._plugin_config = config["plugin_config"]]
                   ELSE h,
                   config)

restore(h, config) == viewer_restore(h, config)

load(h, table) ==
    Call([h EXCEPT !.viewer.table = TRUE], [m |-> "load", table |-> table])

\* viewer.table is undefined until a table is loaded: the call then throws
\* before anything is changed
_update(h, data) ==
    IF h.viewer.table THEN Call(h, [m |-> "table.update", data |-> data]) ELSE h

clear(h) == IF h.viewer.table THEN Call(h, [m |-> "table.clear"]) ELSE h

replace(h, data) ==
    IF h.viewer.table THEN Call(h, [m |-> "table.replace", data |-> data]) ELSE h

delete(h) == Call([h EXCEPT !.viewer.table = FALSE], [m |-> "delete"])

getEditPort(h) == Call(h, [m |-> "getEditPort"])

(***************************************************************************)
(* PerspectiveJupyterPlugin                                                *)
(***************************************************************************)
EXTENSION_ID == "@finos/perspective-jupyterlab"
PERSPECTIVE_VERSION == "PERSPECTIVE_VERSION"
IJupyterWidgetRegistry == "IJupyterWidgetRegistry"

\* activate that registers the widget under the name of the view class
activate_view_name(a) ==
    [a EXCEPT !.registered =
        Append(@, [name |-> "PerspectiveView",
                   version |-> PERSPECTIVE_VERSION,
                   exports |-> [PerspectiveModel |-> "PerspectiveModel",
                                PerspectiveView |-> "PerspectiveView"]])]

\* registry.registerWidget(data) as called by activate(app, registry)
activate(a) ==
    [a EXCEPT !.registered =
        Append(@, [name |-> EXTENSION_ID,
                   version |-> PERSPECTIVE_VERSION,
                   exports |-> [PerspectiveModel |-> "PerspectiveModel",
                                PerspectiveView |-> "PerspectiveView"]])]

PerspectiveJupyterPlugin ==
    [id |-> EXTENSION_ID, requires |-> {IJupyterWidgetRegistry}, autoStart |-> TRUE]

(***************************************************************************)
(* Inputs                                                                  *)
(***************************************************************************)
ArraysOf(S, n) == {Arr(s) : s \in UNION {[1..k -> S] : k \in 0..n}}

ColumnsDomain == ArraysOf({Str("a"), Str("b")}, MaxLen)
PivotsDomain == ArraysOf({Str("a")}, MaxLen)
AggregatesDomain ==
    {Obj(f) : f \in UNION {[K -> {Str("sum")}] : K \in SUBSET {"a", "b"}}}
SortDomain == ArraysOf({Arr(<<Str("a"), Str("asc")>>)}, MaxLen)
FiltersDomain == ArraysOf({Arr(<<Str("a"), Str("=="), Str("x")>>)}, MaxLen)
ExpressionsDomain == ArraysOf({Str("x")}, MaxLen)
PluginConfigDomain == {Null, EmptyObj, Obj("a" :> Str("x")), Obj("b" :> Str("x"))}
Booleans == {Bool(TRUE), Bool(FALSE)}

\* the values each field of an options object is given when present
FieldValues ==
    [plugin |-> {Str(""), Str("d3_y_bar")},
     columns |-> {EmptyArr, Arr(<<Str("a")>>)},
     row_pivots |-> {Arr(<<Str("a")>>)},
     column_pivots |-> {Arr(<<Str("a")>>)},
     aggregates |-> {Obj("a" :> Str("sum"))},
     sort |-> {Arr(<<Arr(<<Str("a"), Str("asc")>>)>>)},
     filters |-> {Arr(<<Arr(<<Str("a"), Str("=="), Str("x")>>)>>)},
     expressions |-> {Arr(<<Str("x")>>)},
     plugin_config |-> {Null, Obj("a" :> Str("x"))},
     dark |-> Booleans, editable |-> {Bool(TRUE)}, server |-> {Bool(TRUE)},
     client |-> {Bool(TRUE)}, selectable |-> {Bool(TRUE)}]
     @@ ("row-pivots" :> {Arr(<<Str("b")>>)})
     @@ ("column-pivots" :> {Arr(<<Str("b")>>)})

\* options objects with at most n of the fields F present
OptionsOver(F, n) ==
    UNION {{o \in [K -> UNION {FieldValues[f] : f \in K}] :
               \A f \in K : o[f] \in FieldValues[f]} :
           K \in {K \in SUBSET F : Cardinality(K) <= n}}

OptionsDomain == OptionsOver(DOMAIN FieldValues, MaxPresent)
LifeOptionsDomain == OptionsOver({"dark", "plugin_config", "editable"}, MaxPresent)
ConfigDomain ==
    {o \in OptionsOver({"plugin", "plugin_config"}, 2) :
        "plugin_config" \in DOMAIN o => o["plugin_config"] # Null}

ResizeMessages ==
    {[type |-> "resize", width |-> -1, height |-> -1],
     [type |-> "resize", width |-> 640, height |-> 480]}
AfterShowMessage == [type |-> "after-show"]
ActivateRequestMessage == [type |-> "activate-request"]
Tables == {"t1", "t2"}

\* the options object gives field f a value that `||` keeps
Given(o, f) == f \in DOMAIN o /\ Truthy(o[f])

\* the value each property is assigned when the options o are applied
Assigned(o) ==
    [columns |-> IF Given(o, "columns") THEN o["columns"] ELSE EmptyArr,
     row_pivots |-> IF Given(o, "row_pivots") THEN o["row_pivots"]
                    ELSE IF Given(o, "row-pivots") THEN o["row-pivots"]
                    ELSE EmptyArr,
     column_pivots |-> IF Given(o, "column_pivots") THEN o["column_pivots"]
                       ELSE IF Given(o, "column-pivots") THEN o["column-pivots"]
                       ELSE EmptyArr,
     aggregates |-> IF Given(o, "aggregates") THEN o["aggregates"] ELSE EmptyObj,
     sort |-> IF Given(o, "sort") THEN o["sort"] ELSE EmptyArr,
     expressions |-> IF Given(o, "expressions") THEN o["expressions"] ELSE EmptyArr,
     filters |-> IF Given(o, "filters") THEN o["filters"] ELSE EmptyArr,
     plugin_config |-> IF Given(o, "plugin_config") THEN o["plugin_config"]
                       ELSE EmptyObj,
     dark |-> IF Given(o, "dark") THEN o["dark"] ELSE Bool(FALSE)]

(***************************************************************************)
(* Initial state: a widget just constructed, not yet attached; the plugin  *)
(* not yet activated                                                       *)
(***************************************************************************)
Init ==
    \E classList \in SUBSET {PSP_CONTAINER_CLASS, PSP_CONTAINER_CLASS_DARK},
       options \in OptionsOver({"dark"}, 1) :
        LET h == constructor(classList, options)
        IN  /\ widget = h.widget
            /\ viewer = h.viewer
            /\ node = h.node
            /\ calls = h.calls
            /\ last = [op |-> "constructor", arg |-> options]
            /\ assigned = Assigned(options)
            /\ app = [services |-> {}, activated |-> FALSE, registered |-> <<>>]

\* the operation op(arg) took the widget to heap h
Commit(h, op, arg) ==
    /\ widget' = h.widget
    /\ viewer' = h.viewer
    /\ node' = h.node
    /\ calls' = h.calls
    /\ last' = [op |-> op, arg |-> arg]
    /\ assigned' = CASE op \in DOMAIN assigned -> [assigned EXCEPT ![op] = arg]
                      [] op = "_set_attributes" -> Assigned(arg)
                      [] OTHER -> assigned
    /\ UNCHANGED app

\* the heap an operation starts from
Start == [Heap EXCEPT !.calls = <<>>]

(***************************************************************************)
(* Operations on the widget                                                *)
(***************************************************************************)
SetColumns == \E v \in ColumnsDomain : Commit(set_columns(Start, v), "columns", v)
SetRowPivots == \E v \in PivotsDomain : Commit(set_row_pivots(Start, v), "row_pivots", v)
SetColumnPivots ==
    \E v \in PivotsDomain : Commit(set_column_pivots(Start, v), "column_pivots", v)
SetAggregates ==
    \E v \in AggregatesDomain : Commit(set_aggregates(Start, v), "aggregates", v)
SetSort == \E v \in SortDomain : Commit(set_sort(Start, v), "sort", v)
SetExpressions ==
    \E v \in ExpressionsDomain : Commit(set_expressions(Start, v), "expressions", v)
SetFilters == \E v \in FiltersDomain : Commit(set_filters(Start, v), "filters", v)

SetAttributes ==
    \E o \in OptionsDomain : Commit(_set_attributes(Start, o), "_set_attributes", o)

SetLifeAttributes ==
    \E o \in LifeOptionsDomain : Commit(_set_attributes(Start, o), "_set_attributes", o)
SetDark == \E v \in Booleans : Commit(set_dark(Start, v), "dark", v)
SetPluginConfig ==
    \E v \in PluginConfigDomain : Commit(set_plugin_config(Start, v), "plugin_config", v)
Restore == \E c \in ConfigDomain : Commit(restore(Start, c), "restore", c)
Save == Commit(save(Start), "save", Undefined)
Load == \E t \in Tables : Commit(load(Start, t), "load", t)
Clear == Commit(clear(Start), "clear", Undefined)
Replace == \E d \in Tables : Commit(replace(Start, d), "replace", d)
Delete == Commit(delete(Start), "delete", Undefined)
ToggleConfig == Commit(toggleConfig(Start), "toggleConfig", Undefined)
Update == \E d \in Tables : Commit(_update(Start, d), "_update", d)
GetEditPort == Commit(getEditPort(Start), "getEditPort", Undefined)

(***************************************************************************)
(* The host (Lumino)                                                       *)
(***************************************************************************)
\* Widget.attach
Attach ==
    /\ ~widget.isAttached
    /\ Commit([Start EXCEPT !.widget.isAttached = TRUE], "attach", Undefined)

\* Widget.detach: a detached widget is not visible
Detach ==
    /\ widget.isAttached
    /\ Commit([Start EXCEPT !.widget.isAttached = FALSE, !.widget.isVisible = FALSE],
              "detach", Undefined)

\* the widget becomes visible: the host sets the flag and sends after-show
AfterShow ==
    /\ widget.isAttached
    /\ ~widget.isVisible
    /\ Commit(onAfterShow([Start EXCEPT !.widget.isVisible = TRUE], AfterShowMessage),
              "onAfterShow", AfterShowMessage)

Hide ==
    /\ widget.isVisible
    /\ Commit([Start EXCEPT !.widget.isVisible = FALSE], "hide", Undefined)

\* a resize message is sent to the widget, visible or not
Resize == \E msg \in ResizeMessages : Commit(onResize(Start, msg), "onResize", msg)

\* widget.activate() posts an activate-request, attached or not
ActivateRequest ==
    Commit(onActivateRequest(Start, ActivateRequestMessage),
           "onActivateRequest", ActivateRequestMessage)

\* the application is given the widget registry
ProvideRegistry ==
    /\ IJupyterWidgetRegistry \notin app.services
    /\ app' = [app EXCEPT !.services = @ \cup {IJupyterWidgetRegistry}]
    /\ UNCHANGED <<widget, viewer, node, calls, last, assigned>>

\* the application activates the plugin once its required services exist
ActivatePlugin ==
    /\ PerspectiveJupyterPlugin.autoStart
    /\ PerspectiveJupyterPlugin.requires \subseteq app.services
    /\ ~app.activated
    /\ app' = [activate(app) EXCEPT !.activated = TRUE]
    /\ UNCHANGED <<widget, viewer, node, calls, last, assigned>>

(***************************************************************************)
(* Specifications                                                          *)
(***************************************************************************)
\* assignments to the attribute-backed collection properties
NextAttr ==
    \/ SetColumns
    \/ SetRowPivots
    \/ SetColumnPivots
    \/ SetAggregates
    \/ SetSort
    \/ SetExpressions
    \/ SetFilters

SpecAttr == Init /\ [][NextAttr]_vars

\* options applied as a whole
NextOpts == SetAttributes

SpecOpts == Init /\ [][NextOpts]_vars

\* the widget in its host
Next ==
    \/ Attach
    \/ Detach
    \/ AfterShow
    \/ Hide
    \/ Resize
    \/ ActivateRequest
    \/ SetDark
    \/ SetPluginConfig
    \/ SetLifeAttributes
    \/ Restore
    \/ Save
    \/ Load
    \/ Clear
    \/ Replace
    \/ Delete
    \/ ToggleConfig
    \/ Update
    \/ GetEditPort
    \/ ProvideRegistry
    \/ ActivatePlugin

Spec == Init /\ [][Next]_vars

(***************************************************************************)
(* Properties                                                              *)
(***************************************************************************)
IsAttrOp(c) == c.m \in {"setAttribute", "removeAttribute"}
\* the attribute writes among the calls of the latest operation
AttrOps == SelectSeq(calls, IsAttrOp)
\* how many of the latest operation's calls are calls of method m
Count(m) == Cardinality({i \in 1..Len(calls) : calls[i].m = m})
EmptyArrayText == Text(<<"[", "]">>)
EmptyObjectText == Text(<<"{", "}">>)

\* C1: for columns, expressions and filters the viewer carries the attribute
\* iff the collection most recently assigned to the property is non-empty,
\* and the attribute then is the JSON serialization of that collection.
C1_AttributeIffNonEmpty ==
    \A p \in {"columns", "expressions", "filters"} :
        /\ hasAttribute(Heap, p) <=> Len(assigned[p].v) > 0
        /\ hasAttribute(Heap, p) =>
              getAttribute(Heap, p) = JSON_stringify(assigned[p])

\* filters was assigned an empty collection, which removed the attribute,
\* while columns carries the serialization of a non-empty one
C1_Witness ==
    /\ last.op = "filters"
    /\ last.arg = EmptyArr
    /\ calls = <<[m |-> "removeAttribute", name |-> "filters"]>>
    /\ hasAttribute(Heap, "columns")
    /\ getAttribute(Heap, "columns") = Text(<<"[", "\"b\"", "]">>)

\* C2: a field absent from the options applied by _set_attributes (or by the
\* constructor) takes its default.
C2_AbsentFieldsTakeDefaults ==
    last.op \in {"_set_attributes", "constructor"} =>
        LET absent(f) == f \notin DOMAIN last.arg
        IN  /\ absent("plugin") => getAttribute(Heap, "plugin") = Str("datagrid")
            /\ (absent("row_pivots") /\ absent("row-pivots")) =>
                  getAttribute(Heap, "row-pivots") = EmptyArrayText
            /\ (absent("column_pivots") /\ absent("column-pivots")) =>
                  getAttribute(Heap, "column-pivots") = EmptyArrayText
            /\ absent("sort") => getAttribute(Heap, "sort") = EmptyArrayText
            /\ absent("aggregates") =>
                  getAttribute(Heap, "aggregates") = EmptyObjectText
            /\ \A f \in {"columns", "expressions", "filters", "editable", "selectable"} :
                  absent(f) => ~hasAttribute(Heap, f)
            /\ absent("plugin_config") => get_plugin_config(Heap) = EmptyObj
            /\ absent("dark") => get_dark(Heap) = Bool(FALSE)
            /\ absent("editable") => get_editable(Heap) = Bool(FALSE)
            /\ absent("server") => get_server(Heap) = Bool(FALSE)
            /\ absent("client") => get_client(Heap) = Bool(FALSE)
            /\ absent("selectable") => get_selectable(Heap) = Bool(FALSE)

\* _set_attributes was applied to options that give columns and nothing else
C2_Witness ==
    /\ last.op = "_set_attributes"
    /\ DOMAIN last.arg = {"columns"}
    /\ getAttribute(Heap, "plugin") = Str("datagrid")
    /\ getAttribute(Heap, "aggregates") = EmptyObjectText

\* C3 as stated: every after-show and resize message results in a call of
\* viewer.notifyResize, every activate request in a call of viewer.focus, and
\* the message is passed on to the base Widget handler.
C3_EveryMessageRelayed ==
    /\ last.op = "onAfterShow" =>
          calls = <<[m |-> "notifyResize"],
                    [m |-> "super.onAfterShow", msg |-> last.arg]>>
    /\ last.op = "onResize" =>
          calls = <<[m |-> "notifyResize"],
                    [m |-> "super.onResize", msg |-> last.arg]>>
    /\ last.op = "onActivateRequest" =>
          calls = <<[m |-> "focus"],
                    [m |-> "super.onActivateRequest", msg |-> last.arg]>>

\* C3 amended: an after-show or resize message results in one call of
\* viewer.notifyResize when the widget is visible and in none otherwise; an
\* activate request results in one call of viewer.focus when the widget is
\* attached and in none otherwise; the message is always passed on to the
\* base Widget handler, after the viewer call.
C3_RelayedWhenVisibleOrAttached ==
    /\ last.op = "onAfterShow" =>
          calls = (IF widget.isVisible THEN <<[m |-> "notifyResize"]>> ELSE <<>>)
                  \o <<[m |-> "super.onAfterShow", msg |-> last.arg]>>
    /\ last.op = "onResize" =>
          calls = (IF widget.isVisible THEN <<[m |-> "notifyResize"]>> ELSE <<>>)
                  \o <<[m |-> "super.onResize", msg |-> last.arg]>>
    /\ last.op = "onActivateRequest" =>
          calls = (IF widget.isAttached THEN <<[m |-> "focus"]>> ELSE <<>>)
                  \o <<[m |-> "super.onActivateRequest", msg |-> last.arg]>>

\* a resize message reached a visible widget and was relayed
C3_Witness ==
    /\ last.op = "onResize"
    /\ widget.isVisible
    /\ Count("notifyResize") = 1
    /\ Count("super.onResize") = 1

\* C4: activation registers the widget exactly once, under the plugin id, with
\* PERSPECTIVE_VERSION and both exports; the plugin is autoStart and requires
\* the widget registry, and nothing is registered before the registry exists.
C4_RegisteredOnceOnActivation ==
    /\ PerspectiveJupyterPlugin.id = "@finos/perspective-jupyterlab"
    /\ PerspectiveJupyterPlugin.autoStart
    /\ IJupyterWidgetRegistry \in PerspectiveJupyterPlugin.requires
    /\ IJupyterWidgetRegistry \notin app.services => app.registered = <<>>
    /\ ~app.activated => app.registered = <<>>
    /\ app.activated =>
          /\ Len(app.registered) = 1
          /\ app.registered[1].name = "@finos/perspective-jupyterlab"
          /\ app.registered[1].version = PERSPECTIVE_VERSION
          /\ {"PerspectiveModel", "PerspectiveView"} \subseteq
                DOMAIN app.registered[1].exports
          /\ app.registered[1].exports["PerspectiveModel"] = "PerspectiveModel"
          /\ app.registered[1].exports["PerspectiveView"] = "PerspectiveView"

\* the plugin has been activated
C4_Witness ==
    /\ app.activated
    /\ IJupyterWidgetRegistry \in app.services
    /\ Len(app.registered) = 1

\* the node carries the dark container class iff dark is true and the plain
\* container class iff dark is false
ContainerClassMatchesDark ==
    /\ PSP_CONTAINER_CLASS_DARK \in node.classList <=> get_dark(Heap) = Bool(TRUE)
    /\ PSP_CONTAINER_CLASS \in node.classList <=> get_dark(Heap) = Bool(FALSE)
    /\ Cardinality(node.classList
                   \cap {PSP_CONTAINER_CLASS, PSP_CONTAINER_CLASS_DARK}) = 1

\* C5 as stated: the node carries exactly the container class of the dark
\* getter, and every assignment to dark calls viewer.restyleElement.
C5_ClassAndAlwaysRestyle ==
    /\ ContainerClassMatchesDark
    /\ last.op = "dark" => Count("restyleElement") = 1

\* C5 amended: the node carries exactly the container class of the dark
\* getter; an assignment to dark calls viewer.restyleElement once when the
\* widget is attached and not at all when it is not attached.
C5_ClassAndRestyleWhenAttached ==
    /\ ContainerClassMatchesDark
    /\ last.op \in {"dark", "_set_attributes"} =>
          Count("restyleElement") = (IF widget.isAttached THEN 1 ELSE 0)

\* dark mode was switched on while the widget was attached
C5_Witness ==
    /\ last.op = "dark"
    /\ last.arg = Bool(TRUE)
    /\ widget.isAttached
    /\ PSP_CONTAINER_CLASS_DARK \in node.classList
    /\ calls = <<[m |-> "restyleElement"]>>

\* C6 as stated: in one run of _set_attributes the aggregates attribute is
\* written after the columns attribute, and the expressions attribute is the
\* last viewer attribute written.
C6_ExpressionsWrittenLast ==
    last.op = "_set_attributes" =>
        LET pos(name) == CHOOSE i \in 1..Len(AttrOps) : AttrOps[i].name = name
        IN  /\ pos("columns") < pos("aggregates")
            /\ AttrOps[Len(AttrOps)].name = "expressions"

\* C7: the plugin_config getter returns the value most recently assigned
\* through the setter, directly or by _set_attributes, whatever else was done
\* to the widget since; assigning a truthy value calls viewer.restore once
\* with {plugin_config: value}, assigning a falsy one calls nothing.
C7_PluginConfigCached ==
    /\ get_plugin_config(Heap) = assigned["plugin_config"]
    /\ last.op = "plugin_config" =>
          calls = IF Truthy(last.arg)
                  THEN <<[m |-> "restore", config |-> [plugin_config |-> last.arg]]>>
                  ELSE <<>>
    /\ last.op \in {"_set_attributes", "constructor"} =>
          /\ Count("restore") = 1
          /\ \E i \in 1..Len(calls) :
                calls[i] = [m |-> "restore",
                            config |-> [plugin_config |-> assigned["plugin_config"]]]

\* restore(config) gave the viewer a plugin_config other than the cached one
C7_Witness ==
    /\ last.op = "restore"
    /\ "plugin_config" \in DOMAIN last.arg
    /\ viewer.plugin_config = last.arg["plugin_config"]
    /\ get_plugin_config(Heap) # viewer.plugin_config
    /\ get_plugin_config(Heap) = Obj("b" :> Str("x"))

\* C8: row_pivots, column_pivots, aggregates and sort read back the value
\* most recently assigned, the empty collection included; columns,
\* expressions and filters read back the assigned value when it is non-empty
\* and null when it is empty.
C8_GetAfterSet ==
    /\ get_row_pivots(Heap) = assigned["row_pivots"]
    /\ get_column_pivots(Heap) = assigned["column_pivots"]
    /\ get_aggregates(Heap) = assigned["aggregates"]
    /\ get_sort(Heap) = assigned["sort"]
    /\ get_columns(Heap) =
          IF Len(assigned["columns"].v) > 0 THEN assigned["columns"] ELSE Null
    /\ get_expressions(Heap) =
          IF Len(assigned["expressions"].v) > 0 THEN assigned["expressions"] ELSE Null
    /\ get_filters(Heap) =
          IF Len(assigned["filters"].v) > 0 THEN assigned["filters"] ELSE Null

\* sort was assigned the empty collection after aggregates and filters had
\* been given members
C8_Witness ==
    /\ last.op = "sort"
    /\ last.arg = EmptyArr
    /\ get_sort(Heap) = EmptyArr
    /\ get_columns(Heap) = Null
    /\ get_aggregates(Heap) = Obj(("a" :> Str("sum")) @@ ("b" :> Str("sum")))
    /\ get_filters(Heap) = Arr(<<Arr(<<Str("a"), Str("=="), Str("x")>>)>>)

====
